---------------------------- MODULE Spec2Model ----------------------------
(*************************************************************************)
(* A model of the DHT11/DHT22 single-wire driver of src/src/lib.rs.      *)
(*                                                                       *)
(* The driver (Dht::read, Dht::read_uninterruptible, Dht::wait_for_level *)
(* and the two parse_data decoders) is translated statement by           *)
(* statement.  The pin, the delay provider and the interrupt guard are   *)
(* the environment: every poll of the pin may report the awaited level,  *)
(* report the other level, or fail with a hardware error.                *)
(*                                                                       *)
(* Numbers.  Bytes are 0..255.  The decoders return f32 values; every    *)
(* value they can return is k/10 for an integer k (Dht11: a whole number *)
(* of units, Dht22: a 16-bit count divided by 10.0), the map k |-> k/10  *)
(* rounded to f32 is strictly increasing on -32767..65535, and 1000/10   *)
(* is exactly 100.0.  A decoded value is therefore represented by its    *)
(* count of tenths, and -0.0 by 0 (they compare equal as f32).           *)
(*************************************************************************)
EXTENDS Integers, Sequences, FiniteSets, TLC

(*************************************************************************)
(* Bounds of the model (not constants of the program).                   *)
(*************************************************************************)
\* Number of read() calls made on one driver instance.
MaxReads == 2

(*************************************************************************)
(* Constants of the program.                                             *)
(*************************************************************************)
WAKE_DELAY_US == 3000
REQUEST_DELAY_US == 25
ACK_TIMEOUT_US == 85
BIT_HIGH_TIMEOUT_US == 55
BIT_LOW_TIMEOUT_US == 70
ONE_THRESHOLD_US == 30
NUM_BITS == 40

\* The two sensor types; the decoder is fixed when the driver is built.
Variants == {"Dht11", "Dht22"}

\* Opaque hardware errors HE of the pin (embedded_hal ErrorType::Error).
HwErrors == {"HwFaultA", "HwFaultB"}

(*************************************************************************)
(* Integer helpers for the u8/u16 arithmetic of the code.                *)
(*************************************************************************)
RECURSIVE Pow2(_)
Pow2(n) == IF n = 0 THEN 1 ELSE 2 * Pow2(n - 1)

\* Bit k (0 = least significant) of x.
BitAt(x, k) == (x \div Pow2(k)) % 2

\* x | y and x & y on w-bit unsigned values.
RECURSIVE BitOr(_, _, _)
BitOr(x, y, w) ==
    IF w = 0 THEN 0
    ELSE (IF x % 2 = 1 \/ y % 2 = 1 THEN 1 ELSE 0)
         + 2 * BitOr(x \div 2, y \div 2, w - 1)

RECURSIVE BitAnd(_, _, _)
BitAnd(x, y, w) ==
    IF w = 0 THEN 0
    ELSE (IF x % 2 = 1 /\ y % 2 = 1 THEN 1 ELSE 0)
         + 2 * BitAnd(x \div 2, y \div 2, w - 1)

\* x << s on a w-bit unsigned value.
Shl(x, s, w) == (x * Pow2(s)) % Pow2(w)

(*************************************************************************)
(* Results of a read: Result<Reading, DhtError<HE>>.                     *)
(*************************************************************************)
Ok(h, t) == [tag |-> "Ok", humidity |-> h, temperature |-> t]
NotPresent == [tag |-> "NotPresent"]
ChecksumMismatch(expected, calculated) ==
    [tag |-> "ChecksumMismatch", expected |-> expected, calculated |-> calculated]
InvalidData == [tag |-> "InvalidData"]
Timeout == [tag |-> "Timeout"]
PinError(e) == [tag |-> "PinError", error |-> e]

\* No result yet: the read is still running, or none was made.
NoResult == [tag |-> "None"]

\* impl From<HE> for DhtError<HE>: what the ? operator makes of a pin error.
FromHwErrorDropsCause(e) == Timeout
FromHwError(e) == PinError(e)

(*************************************************************************)
(* The decoders.  A frame is a 5-tuple of bytes, buf[0..4] of the code   *)
(* being b[1..5] here.  Values are in tenths (see the header).           *)
(*************************************************************************)
\* Dht11::parse_data: (buf[0] as f32, buf[2] as f32).
Dht11_parse_data_WithFraction(b) == <<10 * b[1] + b[2], 10 * b[3] + b[4]>>
Dht11_parse_data(b) == <<10 * b[1], 10 * b[3]>>

\* Dht22::parse_data.
Dht22_parse_data_TwosComplement(b) ==
    LET humidity == BitOr(Shl(b[1], 8, 16), b[2], 16)
        raw == BitOr(Shl(b[3], 8, 16), b[4], 16)
    IN  <<humidity, IF raw >= 32768 THEN raw - 65536 ELSE raw>>
Dht22_parse_data(b) ==
    LET humidity == BitOr(Shl(b[1], 8, 16), b[2], 16)
        magnitude == BitOr(Shl(BitAnd(b[3], 127, 8), 8, 16), b[4], 16)
        temperature == IF BitAnd(b[3], 128, 8) # 0 THEN -magnitude ELSE magnitude
    IN  <<humidity, temperature>>

\* The parse_data function pointer that Dht11::read / Dht22::read pass on.
ParseData(v, b) == IF v = "Dht11" THEN Dht11_parse_data(b) ELSE Dht22_parse_data(b)

\* (0.0..=100.0).contains(&humidity), on tenths.
HumidityInRangeExclusive(h) == 0 <= h /\ h < 1000
HumidityInRangeUnchecked(h) == TRUE
HumidityInRange(h) == 0 <= h /\ h <= 1000

\* The checksum of lines 156-159: the u16 sum of buf[0..=3], & 0xff, as u8.
Checksum(b) == BitAnd(b[1] + b[2] + b[3] + b[4], 255, 16)

\* Lines 160-172: compare, decode, range-check.
ValidateRangeFirst(v, b) ==
    LET checksum == Checksum(b)
        parsed == ParseData(v, b)
    IN  IF ~HumidityInRange(parsed[1]) THEN InvalidData
        ELSE IF b[5] = checksum THEN Ok(parsed[1], parsed[2])
        ELSE ChecksumMismatch(b[5], checksum)
ValidateRejectsNegative(v, b) ==
    LET checksum == Checksum(b)
        parsed == ParseData(v, b)
    IN  IF b[5] = checksum
        THEN IF ~HumidityInRange(parsed[1]) \/ parsed[2] < 0 THEN InvalidData
             ELSE Ok(parsed[1], parsed[2])
        ELSE ChecksumMismatch(b[5], checksum)
Validate(v, b) ==
    LET checksum == Checksum(b)
    IN  IF b[5] = checksum
        THEN LET parsed == ParseData(v, b)
             IN  IF ~HumidityInRange(parsed[1]) THEN InvalidData
                 ELSE Ok(parsed[1], parsed[2])
        ELSE ChecksumMismatch(b[5], checksum)

\* Lines 150-152: buf[bit / 8] |= 1 << (7 - bit % 8).
SetBitLsbFirst(b, i) ==
    LET byte == i \div 8
        shift == i % 8
    IN  [b EXCEPT ![byte + 1] = BitOr(b[byte + 1], Shl(1, shift, 8), 8)]
SetBit(b, i) ==
    LET byte == i \div 8
        shift == 7 - (i % 8)
    IN  [b EXCEPT ![byte + 1] = BitOr(b[byte + 1], Shl(1, shift, 8), 8)]

\* Line 149: the pulse is a '1' when elapsed > 30.
IsOneFrom30(e) == e >= ONE_THRESHOLD_US
IsOne(e) == e > ONE_THRESHOLD_US

\* The on_timeout arguments of the four wait_for_level calls.
AckTimeoutIsTimeout == Timeout
AckTimeoutError == NotPresent
BitTimeoutIsNotPresent == NotPresent
BitTimeoutError == Timeout

(*************************************************************************)
(* The sensor on the other end of the line.  It transmits a frame most   *)
(* significant bit first, one high pulse per bit, and the length of the  *)
(* pulse tells the bit: longer than 30 microseconds is a 1.  The frames  *)
(* it may transmit are the ones below, each with its true checksum and   *)
(* with a corrupted one; any prefix of them may be cut short by a stall  *)
(* or a pin failure.                                                     *)
(*************************************************************************)
FrameData ==
    { <<0, 0, 0, 0>>,          \* humidity 0 for both sensors
      <<45, 0, 26, 0>>,        \* a Dht11 frame: 45 %, 26 degrees
      <<45, 7, 26, 9>>,        \* the same with fraction bytes set
      <<100, 0, 255, 255>>,    \* Dht11 humidity 100, largest temperature bytes
      <<101, 0, 26, 0>>,       \* Dht11 humidity 101
      <<2, 88, 1, 10>>,        \* a Dht22 frame: 60.0 %, 26.6 degrees
      <<2, 88, 129, 10>>,      \* the same below zero
      <<3, 232, 128, 0>>,      \* Dht22 humidity 100.0, temperature -0
      <<3, 233, 0, 0>>,        \* Dht22 humidity 100.1
      <<255, 255, 255, 255>> } \* the byte sum overflows 8 bits

TrueSum(d) == (d[1] + d[2] + d[3] + d[4]) % 256

Frames ==
    { <<d[1], d[2], d[3], d[4], c>> :
        d \in FrameData, c \in {0} } \cup
    { <<d[1], d[2], d[3], d[4], TrueSum(d)>> : d \in FrameData } \cup
    { <<d[1], d[2], d[3], d[4], (TrueSum(d) + 1) % 256>> : d \in FrameData } \cup
    { <<255, 255, 255, 255, 255>> }   \* forty long pulses

\* The 40 bits of a frame in the order the sensor transmits them.
FrameBits(f) ==
    [i \in 1..NUM_BITS |-> BitAt(f[((i - 1) \div 8) + 1], 7 - ((i - 1) % 8))]

FrameBitSeqs == { FrameBits(f) : f \in Frames }

\* The byte that the bits s[8k+1..8k+8] spell, most significant first.
RECURSIVE BitsValue(_)
BitsValue(s) ==
    IF s = <<>> THEN 0 ELSE 2 * BitsValue(SubSeq(s, 1, Len(s) - 1)) + s[Len(s)]

\* The bits s, zero-padded to 40, as 5 bytes.
BytesOf(s) ==
    LET padded == [i \in 1..NUM_BITS |-> IF i <= Len(s) THEN s[i] ELSE 0]
    IN  [k \in 1..5 |-> BitsValue(SubSeq(padded, 8 * (k - 1) + 1, 8 * k))]

(*************************************************************************)
(* State.                                                                *)
(*************************************************************************)
VARIABLES
    variant,        \* the decoder the driver was built with
    pc,             \* where the current read() stands; "idle" between reads
    buf,            \* read_uninterruptible's buf
    bit,            \* the loop variable of `for bit in 0..40`
    level,          \* the level the current wait_for_level waits for
    elapsed,        \* the loop variable of wait_for_level
    ret,            \* the count wait_for_level has just returned in Ok(..)
    res,            \* the result of read_uninterruptible / the last read()
    suspended,      \* the guard: TRUE between disable_ and enable_interrupts
    disableCalls,   \* calls of disable_interrupts since construction
    enableCalls,    \* calls of enable_interrupts since construction
    reads,          \* calls of read() since construction
    sent,           \* the bits the sensor has transmitted in this read
    fault,          \* the hardware error the pin raised in this read, if any
    writes,         \* the levels written to the pin in this read
    opsAfterFault,  \* pin operations and delays made after a pin failure
    unguardedOps,   \* pin operations and delays made while not suspended
    timedOut,       \* the wait whose bound ran out in this read, if any
    prevAborted,    \* the read before this one timed out with bits in buf
    waitPolls,      \* polls of the pin made by the current wait_for_level
    waitDelays,     \* delay_us(1) calls made by the current wait_for_level
    waitsDone,      \* wait_for_level calls of this read that returned Ok
    preamble,       \* the writes and delays made before the first poll
    polled,         \* the pin has been polled in this read
    lateOps,        \* writes and delays made between polls, other than
                    \* wait_for_level's delay_us(1)
    metering,       \* the delay provider sums the microseconds it is asked
    delayed         \* that sum for this read, when metering

vars == <<variant, pc, buf, bit, level, elapsed, ret, res, suspended, disableCalls,
          enableCalls, reads, sent, fault, writes, opsAfterFault, unguardedOps,
          timedOut, prevAborted, waitPolls, waitDelays, waitsDone, preamble,
          polled, lateOps, metering, delayed>>

\* What no step of a read changes, and the guard's side.
fixedVars == <<variant, reads, prevAborted, metering>>
guardVars == <<suspended, disableCalls, enableCalls>>

NoFault == "none"

\* ret when no wait_for_level has just returned.
NoTicks == -1

\* Line 127: let mut buf: [u8; 5] = [0; 5].
StaleBuf == buf
FreshBuf == <<0, 0, 0, 0, 0>>

\* The driver as Dht11::new / Dht22::new builds it, no read made yet.
Built ==
    /\ variant \in Variants
    /\ bit = 0
    /\ level = "none"
    /\ elapsed = 0
    /\ ret = NoTicks
    /\ res = NoResult
    /\ suspended = FALSE
    /\ disableCalls = 0
    /\ enableCalls = 0
    /\ reads = 0
    /\ sent = <<>>
    /\ fault = NoFault
    /\ writes = <<>>
    /\ opsAfterFault = 0
    /\ unguardedOps = 0
    /\ timedOut = "none"
    /\ prevAborted = FALSE
    /\ waitPolls = 0
    /\ waitDelays = 0
    /\ waitsDone = 0
    /\ preamble = <<>>
    /\ polled = FALSE
    /\ lateOps = 0
    /\ delayed = 0

Init ==
    /\ Built
    /\ pc = "idle"
    /\ buf = <<0, 0, 0, 0, 0>>
    /\ metering = FALSE

\* Bookkeeping of one pin operation or delay.
Op ==
    /\ opsAfterFault' = IF fault # NoFault THEN opsAfterFault + 1 ELSE opsAfterFault
    /\ unguardedOps' = IF suspended THEN unguardedOps ELSE unguardedOps + 1

\* A pin write or a delay of read_uninterruptible itself.
Step(op, us) ==
    /\ Op
    /\ preamble' = IF polled THEN preamble
                   ELSE Append(preamble, [op |-> op, us |-> us])
    /\ lateOps' = IF polled THEN lateOps + 1 ELSE lateOps
    /\ UNCHANGED polled

\* A poll of the pin that does not fail: is_high() or is_low(), lines
\* 182-185.
Poll ==
    /\ Op
    /\ polled' = TRUE
    /\ waitPolls' = waitPolls + 1
    /\ preamble' =
          IF polled THEN preamble
          ELSE Append(preamble,
                      [op |-> IF level = "High" THEN "is_high" ELSE "is_low",
                       us |-> 0])
    /\ UNCHANGED lateOps

\* self.delay.delay_us(us), as the delay provider sees it.
Delay(us) == delayed' = IF metering THEN delayed + us ELSE delayed

\* A pin operation fails with e: the ? operator returns from
\* read_uninterruptible with the converted error.
Fail(e) ==
    /\ Op
    /\ fault' = e
    /\ res' = FromHwError(e)
    /\ pc' = "enable"
    /\ UNCHANGED <<timedOut, preamble, lateOps, polled, delayed, level,
                   elapsed, ret, waitPolls, waitDelays, waitsDone>>

\* wait_for_level(l, ..) is entered: `for elapsed in 0..=timeout_us`
\* starts at 0.
EnterWait(l) ==
    /\ level' = l
    /\ elapsed' = 0
    /\ ret' = NoTicks
    /\ waitPolls' = 0
    /\ waitDelays' = 0

(*************************************************************************)
(* The pin as the sensor drives it.                                      *)
(*************************************************************************)
\* The bit a high pulse of `us` microseconds stands for.
SensorBit(us) == IF us > 30 THEN 1 ELSE 0

\* The sensor may transmit bit b next: some frame continues `sent` with b.
CanSend(b) ==
    \E f \in FrameBitSeqs :
        /\ Len(sent) < NUM_BITS
        /\ SubSeq(f, 1, Len(sent)) = sent
        /\ f[Len(sent) + 1] = b

(*************************************************************************)
(* Dht::read, lines 116-121, around read_uninterruptible.                *)
(*************************************************************************)
\* read() is called: disable_interrupts(), then read_uninterruptible
\* begins with its zeroed buf.
ReadCallNoDisable ==
    /\ pc = "idle"
    /\ reads < MaxReads
    /\ reads' = reads + 1
    /\ buf' = FreshBuf
    /\ res' = NoResult
    /\ bit' = 0
    /\ level' = "none"
    /\ elapsed' = 0
    /\ ret' = NoTicks
    /\ sent' = <<>>
    /\ fault' = NoFault
    /\ writes' = <<>>
    /\ opsAfterFault' = 0
    /\ timedOut' = "none"
    /\ prevAborted' = (res = Timeout /\ buf # <<0, 0, 0, 0, 0>>)
    /\ waitPolls' = 0
    /\ waitDelays' = 0
    /\ waitsDone' = 0
    /\ preamble' = <<>>
    /\ polled' = FALSE
    /\ lateOps' = 0
    /\ delayed' = 0
    /\ pc' = "set_low"
    /\ UNCHANGED <<variant, metering, unguardedOps, guardVars>>
ReadCall ==
    /\ pc = "idle"
    /\ reads < MaxReads
    /\ reads' = reads + 1
    /\ suspended' = TRUE
    /\ disableCalls' = disableCalls + 1
    /\ buf' = FreshBuf
    /\ res' = NoResult
    /\ bit' = 0
    /\ level' = "none"
    /\ elapsed' = 0
    /\ ret' = NoTicks
    /\ sent' = <<>>
    /\ fault' = NoFault
    /\ writes' = <<>>
    /\ opsAfterFault' = 0
    /\ timedOut' = "none"
    /\ prevAborted' = (res = Timeout /\ buf # <<0, 0, 0, 0, 0>>)
    /\ waitPolls' = 0
    /\ waitDelays' = 0
    /\ waitsDone' = 0
    /\ preamble' = <<>>
    /\ polled' = FALSE
    /\ lateOps' = 0
    /\ delayed' = 0
    /\ pc' = "set_low"
    /\ UNCHANGED <<variant, metering, unguardedOps, enableCalls>>

\* read_uninterruptible has returned res: enable_interrupts(), return res.
ReadReturnEnableOnOkOnly ==
    /\ pc = "enable"
    /\ suspended' = IF res.tag = "Ok" THEN FALSE ELSE suspended
    /\ enableCalls' = IF res.tag = "Ok" THEN enableCalls + 1 ELSE enableCalls
    /\ pc' = "idle"
    /\ UNCHANGED <<fixedVars, buf, bit, level, elapsed, ret, res, disableCalls, sent,
                   fault, writes, opsAfterFault, unguardedOps, timedOut,
                   waitPolls, waitDelays, waitsDone, preamble, polled,
                   lateOps, delayed>>
ReadReturn ==
    /\ pc = "enable"
    /\ suspended' = FALSE
    /\ enableCalls' = enableCalls + 1
    /\ pc' = "idle"
    /\ UNCHANGED <<fixedVars, buf, bit, level, elapsed, ret, res, disableCalls, sent,
                   fault, writes, opsAfterFault, unguardedOps, timedOut,
                   waitPolls, waitDelays, waitsDone, preamble, polled,
                   lateOps, delayed>>

(*************************************************************************)
(* Dht::read_uninterruptible, lines 129-135: the two pulses.             *)
(*************************************************************************)
\* self.pin.set_low()?
SetLowDrivesHigh ==
    /\ pc = "set_low"
    /\ \/ /\ \E e \in HwErrors : Fail(e)
          /\ UNCHANGED writes
       \/ /\ Step("set_high", 0)
          /\ writes' = Append(writes, "high")
          /\ pc' = "delay_wake"
          /\ UNCHANGED <<res, fault, timedOut, delayed, level, elapsed, ret,
                         waitPolls, waitDelays, waitsDone>>
    /\ UNCHANGED <<fixedVars, guardVars, buf, bit, sent>>
SetLow ==
    /\ pc = "set_low"
    /\ \/ /\ \E e \in HwErrors : Fail(e)
          /\ UNCHANGED writes
       \/ /\ Step("set_low", 0)
          /\ writes' = Append(writes, "low")
          /\ pc' = "delay_wake"
          /\ UNCHANGED <<res, fault, timedOut, delayed, level, elapsed, ret,
                         waitPolls, waitDelays, waitsDone>>
    /\ UNCHANGED <<fixedVars, guardVars, buf, bit, sent>>

\* self.delay.delay_us(3000)
DelayWake ==
    /\ pc = "delay_wake"
    /\ Step("delay_us", WAKE_DELAY_US)
    /\ Delay(WAKE_DELAY_US)
    /\ pc' = "set_high"
    /\ UNCHANGED <<fixedVars, guardVars, buf, bit, level, elapsed, ret, res,
                   sent, fault, writes, timedOut, waitPolls, waitDelays,
                   waitsDone>>

\* self.pin.set_high()?
SetHigh ==
    /\ pc = "set_high"
    /\ \/ /\ \E e \in HwErrors : Fail(e)
          /\ UNCHANGED writes
       \/ /\ Step("set_high", 0)
          /\ writes' = Append(writes, "high")
          /\ pc' = "delay_request"
          /\ UNCHANGED <<res, fault, timedOut, delayed, level, elapsed, ret,
                         waitPolls, waitDelays, waitsDone>>
    /\ UNCHANGED <<fixedVars, guardVars, buf, bit, sent>>

\* self.delay.delay_us(25); then line 138 calls wait_for_level.
DelayRequest ==
    /\ pc = "delay_request"
    /\ Step("delay_us", REQUEST_DELAY_US)
    /\ Delay(REQUEST_DELAY_US)
    /\ pc' = "ack_high"
    /\ EnterWait("High")
    /\ UNCHANGED <<fixedVars, guardVars, buf, bit, res, sent, fault, writes,
                   timedOut, waitsDone>>

(*************************************************************************)
(* Dht::wait_for_level, lines 175-193.  One step is one iteration of     *)
(* `for elapsed in 0..=timeout_us`: a poll, and after a poll that does   *)
(* not match, delay_us(1).                                               *)
(*************************************************************************)
\* The poll fails (the ? of line 185), or it does not match: delay, and
\* either go round again or leave the loop with Err(on_timeout).
WaitMissOneMore(timeout_us, on_timeout) ==
    \/ \E e \in HwErrors : Fail(e)
    \/ /\ Poll
       /\ waitDelays' = waitDelays + 1
       /\ Delay(1)
       /\ IF elapsed < timeout_us + 1
          THEN /\ elapsed' = elapsed + 1
               /\ UNCHANGED <<pc, res, timedOut>>
          ELSE /\ res' = on_timeout
               /\ timedOut' = pc
               /\ pc' = "enable"
               /\ UNCHANGED elapsed
       /\ UNCHANGED <<fault, ret, waitsDone>>
WaitMissSpins(timeout_us, on_timeout) ==
    \/ \E e \in HwErrors : Fail(e)
    \/ /\ elapsed < timeout_us
       /\ Poll
       /\ waitDelays' = waitDelays + 1
       /\ Delay(1)
       /\ elapsed' = elapsed + 1
       /\ UNCHANGED <<pc, res, timedOut, fault, ret, waitsDone>>
    \/ /\ elapsed >= timeout_us
       /\ Op
       /\ elapsed' = 0
       /\ waitPolls' = 0
       /\ waitDelays' = 0
       /\ UNCHANGED <<pc, res, timedOut, fault, ret, waitsDone, polled,
                      preamble, lateOps, delayed>>
WaitMiss(timeout_us, on_timeout) ==
    \/ \E e \in HwErrors : Fail(e)
    \/ /\ Poll
       /\ waitDelays' = waitDelays + 1
       /\ Delay(1)
       /\ IF elapsed < timeout_us
          THEN /\ elapsed' = elapsed + 1
               /\ UNCHANGED <<pc, res, timedOut>>
          ELSE /\ res' = on_timeout
               /\ timedOut' = pc
               /\ pc' = "enable"
               /\ UNCHANGED elapsed
       /\ UNCHANGED <<fault, ret, waitsDone>>

\* The poll matches: return Ok(elapsed), line 188.
WaitHitReturnsNext(retPc) ==
    /\ Poll
    /\ ret' = elapsed + 1
    /\ waitsDone' = waitsDone + 1
    /\ pc' = retPc
    /\ UNCHANGED <<res, fault, timedOut, elapsed, waitDelays, delayed>>
WaitHit(retPc) ==
    /\ Poll
    /\ ret' = elapsed
    /\ waitsDone' = waitsDone + 1
    /\ pc' = retPc
    /\ UNCHANGED <<res, fault, timedOut, elapsed, waitDelays, delayed>>

\* What no step of wait_for_level changes but for the sensor's record.
waitFrame == <<fixedVars, guardVars, buf, bit, level, writes>>

\* What the lines between two calls of wait_for_level leave alone.
callFrame ==
    <<fixedVars, guardVars, res, sent, fault, writes, timedOut, waitsDone,
      opsAfterFault, unguardedOps, preamble, polled, lateOps, delayed>>

\* Line 138: wait_for_level(High, 85, NotPresent)?
AckHigh ==
    /\ pc = "ack_high"
    /\ \/ WaitMiss(ACK_TIMEOUT_US, AckTimeoutError)
       \/ WaitHit("ack_high_ret")
    /\ UNCHANGED <<waitFrame, sent>>

\* Line 139: wait_for_level(Low, 85, NotPresent)? is called.
CallAckLow ==
    /\ pc = "ack_high_ret"
    /\ pc' = "ack_low"
    /\ EnterWait("Low")
    /\ UNCHANGED <<callFrame, buf, bit>>

AckLow ==
    /\ pc = "ack_low"
    /\ \/ WaitMiss(ACK_TIMEOUT_US, AckTimeoutError)
       \/ WaitHit("ack_low_ret")
    /\ UNCHANGED <<waitFrame, sent>>

\* Lines 142-144: `for bit in 0..40` begins and calls
\* wait_for_level(High, 55, Timeout)?
EnterLoop ==
    /\ pc = "ack_low_ret"
    /\ bit' = 0
    /\ pc' = "bit_high"
    /\ EnterWait("High")
    /\ UNCHANGED <<callFrame, buf>>

BitHigh ==
    /\ pc = "bit_high"
    /\ \/ WaitMiss(BIT_HIGH_TIMEOUT_US, BitTimeoutError)
       \/ WaitHit("bit_high_ret")
    /\ UNCHANGED <<waitFrame, sent>>

\* Line 147: wait_for_level(Low, 70, Timeout)? is called.
CallBitLow ==
    /\ pc = "bit_high_ret"
    /\ pc' = "bit_low"
    /\ EnterWait("Low")
    /\ UNCHANGED <<callFrame, buf, bit>>

\* The line goes low when the sensor has held it high for the length of
\* the bit it transmits.
BitLow ==
    /\ pc = "bit_low"
    /\ \/ /\ WaitMiss(BIT_LOW_TIMEOUT_US, BitTimeoutError)
          /\ UNCHANGED sent
       \/ /\ CanSend(SensorBit(elapsed))
          /\ sent' = Append(sent, SensorBit(elapsed))
          /\ WaitHit("bit_low_ret")
    /\ UNCHANGED waitFrame

\* Lines 147-153: let elapsed = ..; the bit is stored, and the loop goes on
\* to the next bit and its first wait, or ends after the 40th.
BitStore ==
    /\ pc = "bit_low_ret"
    /\ buf' = IF IsOne(ret) THEN SetBit(buf, bit) ELSE buf
    /\ bit' = bit + 1
    /\ IF bit + 1 < NUM_BITS
       THEN /\ pc' = "bit_high"
            /\ EnterWait("High")
       ELSE /\ pc' = "validate"
            /\ UNCHANGED <<level, elapsed, ret, waitPolls, waitDelays>>
    /\ UNCHANGED callFrame

\* Lines 156-172: the checksum, the decoder and the range check.
ValidateFrame ==
    /\ pc = "validate"
    /\ res' = Validate(variant, buf)
    /\ pc' = "enable"
    /\ UNCHANGED <<fixedVars, guardVars, buf, bit, level, elapsed, ret, sent,
                   fault, writes, opsAfterFault, unguardedOps, timedOut, waitPolls,
                   waitDelays, waitsDone, preamble, polled, lateOps, delayed>>

\* The steps of a read once it is called.
Run ==
    \/ SetLow
    \/ DelayWake
    \/ SetHigh
    \/ DelayRequest
    \/ AckHigh
    \/ CallAckLow
    \/ AckLow
    \/ EnterLoop
    \/ BitHigh
    \/ CallBitLow
    \/ BitLow
    \/ BitStore
    \/ ValidateFrame
    \/ ReadReturn

Next ==
    \/ ReadCall
    \/ Run

Spec == Init /\ [][Next]_vars

(*************************************************************************)
(* The same driver under a scheduler that keeps running a read once it   *)
(* is called: the code is sequential and every pin call and delay        *)
(* returns.                                                              *)
(*************************************************************************)
FairSpec == Spec /\ WF_vars(Run)

(*************************************************************************)
(* The same driver with a delay provider that sums the microseconds it   *)
(* is asked for, on a line whose level changes either at the first poll  *)
(* of a wait or at the last one its bound allows, or not at all, and     *)
(* whose sensor transmits long pulses only.                              *)
(*************************************************************************)
\* The timeout_us argument of the wait_for_level call that pc stands in.
TimeoutOf(p) ==
    CASE p \in {"ack_high", "ack_high_ret", "ack_low", "ack_low_ret"} -> ACK_TIMEOUT_US
      [] p \in {"bit_high", "bit_high_ret"} -> BIT_HIGH_TIMEOUT_US
      [] p \in {"bit_low", "bit_low_ret"} -> BIT_LOW_TIMEOUT_US

WaitPcs == {"ack_high", "ack_low", "bit_high", "bit_low"}
RetPcs == {"ack_high_ret", "ack_low_ret", "bit_high_ret", "bit_low_ret"}

MeteredInit ==
    /\ Built
    /\ variant = "Dht22"
    /\ pc = "idle"
    /\ buf = <<0, 0, 0, 0, 0>>
    /\ metering = TRUE

EdgeTimedPin ==
    /\ pc \in WaitPcs /\ pc' \in RetPcs => ret' \in {0, TimeoutOf(pc)}
    /\ \A i \in 1..Len(sent') : sent'[i] = 1

MeteredNext == Next /\ EdgeTimedPin

DelaySpec == MeteredInit /\ [][MeteredNext]_vars

(*************************************************************************)
(* The decoders on their own: parse_data applied to a frame.             *)
(*************************************************************************)
SampleBytes == {0, 1, 2, 10, 26, 45, 88, 127, 128, 129, 255}

SampleFrames ==
    { <<b0, b1, b2, b3, c>> :
        b0 \in SampleBytes, b1 \in SampleBytes, b2 \in SampleBytes,
        b3 \in SampleBytes, c \in {71, 101} }

DecodeInit ==
    /\ Built
    /\ pc = "parse"
    /\ buf \in SampleFrames
    /\ metering = FALSE

\* let (humidity, temperature) = parse_data(&buf), line 161.
Decode ==
    /\ pc = "parse"
    /\ res' = [tag |-> "Parsed",
               humidity |-> ParseData(variant, buf)[1],
               temperature |-> ParseData(variant, buf)[2]]
    /\ pc' = "parsed"
    /\ UNCHANGED <<fixedVars, guardVars, buf, bit, level, elapsed, ret, sent,
                   fault, writes, opsAfterFault, unguardedOps, timedOut,
                   waitPolls, waitDelays, waitsDone, preamble, polled,
                   lateOps, delayed>>

DecodeSpec == DecodeInit /\ [][Decode]_vars

(*************************************************************************)
(* What the properties below speak of.                                   *)
(*************************************************************************)
\* A read has ended: read_uninterruptible has produced res.
Ended == pc \in {"enable", "idle"} /\ reads > 0

\* read() has returned res to its caller.
Returned == pc = "idle" /\ reads > 0

\* The frame the pin delivered, and whether it delivered all of it.
SentFrame == BytesOf(sent)
Complete == Len(sent) = NUM_BITS

\* The sum of the four data bytes modulo 256.
ByteSum(f) == (f[1] + f[2] + f[3] + f[4]) % 256

\* Humidity and temperature of a frame, in tenths, for each sensor.
HumidityOf(v, f) == IF v = "Dht11" THEN 10 * f[1] ELSE 256 * f[1] + f[2]
TemperatureOf(v, f) ==
    IF v = "Dht11" THEN 10 * f[3]
    ELSE IF f[3] >= 128 THEN -(256 * (f[3] - 128) + f[4])
         ELSE 256 * f[3] + f[4]

\* The states in which the next step is a pin operation or a delay.
ProtocolPcs ==
    {"set_low", "delay_wake", "set_high", "delay_request",
     "ack_high", "ack_high_ret", "ack_low", "ack_low_ret",
     "bit_high", "bit_high_ret", "bit_low", "bit_low_ret"}

(*************************************************************************)
(* C1.  read() returns Ok(Reading) only if all 40 bits were sampled,     *)
(* byte 4 of the sampled frame equals the sum of bytes 0..3 modulo 256,  *)
(* and the humidity the selected decoder makes of that frame lies in     *)
(* [0, 100]; the Reading carries that humidity.                          *)
(*************************************************************************)
C1_OkOnlyFromValidFrame ==
    res.tag = "Ok" =>
        /\ bit = NUM_BITS
        /\ Complete
        /\ fault = NoFault
        /\ timedOut = "none"
        /\ buf[5] = ByteSum(buf)
        /\ HumidityOf(variant, buf) \in 0..1000
        /\ res.humidity = HumidityOf(variant, buf)

C1_Witness == Returned /\ res.tag = "Ok" /\ variant = "Dht22" /\ res.humidity = 600

(*************************************************************************)
(* C2.  Every read() calls disable_interrupts once and                   *)
(* enable_interrupts once, whatever its outcome: between reads both      *)
(* have been called once per read made and the guard is not suspended;   *)
(* during a read the one enable call of that read is still to come.      *)
(*************************************************************************)
C2_GuardCalledOncePerRead ==
    /\ disableCalls = reads
    /\ pc = "idle" => enableCalls = reads /\ ~suspended
    /\ pc # "idle" => enableCalls = reads - 1 /\ suspended

C2_Witness ==
    Returned /\ reads = MaxReads /\ res.tag = "PinError" /\ enableCalls = MaxReads

(*************************************************************************)
(* C3.  No pin write, pin poll or delay of a read happens while the      *)
(* guard is not suspended: disable_interrupts comes before the first     *)
(* pin write and enable_interrupts after the last pin operation.         *)
(*************************************************************************)
C3_ProtocolRunsSuspended ==
    /\ unguardedOps = 0
    /\ pc \in ProtocolPcs => suspended

C3_Witness == Returned /\ Complete /\ ~suspended /\ writes = <<"low", "high">>

(*************************************************************************)
(* C4.  A fully sampled frame whose byte 4 differs from the sum of       *)
(* bytes 0..3 modulo 256 yields ChecksumMismatch(byte 4, that sum), for  *)
(* both sensors and also when its humidity is out of range.              *)
(*************************************************************************)
C4_ChecksumMismatchReported ==
    Ended /\ Complete /\ SentFrame[5] # ByteSum(SentFrame) =>
        res = [tag |-> "ChecksumMismatch",
               expected |-> SentFrame[5],
               calculated |-> ByteSum(SentFrame)]

C4_Witness ==
    /\ Returned /\ Complete
    /\ SentFrame = <<255, 255, 255, 255, 253>>
    /\ res.tag = "ChecksumMismatch"
    /\ res.calculated = 252

(*************************************************************************)
(* C5.  When one of the two acknowledgment waits runs out (86 polls,     *)
(* elapsed 0..85, none matching) the read ends with NotPresent,          *)
(* whichever of the two it was.                                          *)
(*************************************************************************)
C5_AckTimeoutIsNotPresent ==
    timedOut \in {"ack_high", "ack_low"} =>
        /\ Ended
        /\ res = [tag |-> "NotPresent"]
        /\ elapsed = ACK_TIMEOUT_US
        /\ fault = NoFault

C5_Witness == Returned /\ timedOut = "ack_low" /\ res.tag = "NotPresent"

(*************************************************************************)
(* C6.  When a wait of the sampling loop runs out, at any bit, the read  *)
(* ends with Timeout: nothing is made of the bits sampled so far.        *)
(*************************************************************************)
C6_BitTimeoutIsTimeout ==
    timedOut \in {"bit_high", "bit_low"} =>
        /\ Ended
        /\ res = [tag |-> "Timeout"]
        /\ bit < NUM_BITS
        /\ elapsed = IF timedOut = "bit_high" THEN BIT_HIGH_TIMEOUT_US
                     ELSE BIT_LOW_TIMEOUT_US
        /\ fault = NoFault

C6_Witness ==
    /\ Returned /\ timedOut = "bit_low" /\ bit = NUM_BITS - 1
    /\ buf[1] = 255 /\ res.tag = "Timeout"

(*************************************************************************)
(* C7.  A completely delivered frame with a matching checksum and a      *)
(* humidity in [0, 100] yields Ok with exactly the humidity and the      *)
(* temperature of the selected sensor's encoding, whatever the           *)
(* temperature bytes are.                                                *)
(*************************************************************************)
C7_ValidFrameDecoded ==
    /\ Ended /\ Complete
    /\ SentFrame[5] = ByteSum(SentFrame)
    /\ HumidityOf(variant, SentFrame) \in 0..1000
    => res = [tag |-> "Ok",
              humidity |-> HumidityOf(variant, SentFrame),
              temperature |-> TemperatureOf(variant, SentFrame)]

C7_Witness ==
    /\ Returned /\ Complete /\ variant = "Dht22"
    /\ SentFrame = <<2, 88, 129, 10, 229>>
    /\ res.tag = "Ok" /\ res.temperature = -266

(*************************************************************************)
(* C8.  For a checksum-valid frame the humidity check is inclusive:      *)
(* Dht11 byte 0 up to 100, Dht22 raw humidity up to 1000 tenths give Ok, *)
(* 0 included; Dht11 byte 0 from 101, Dht22 raw humidity from 1001 give  *)
(* InvalidData.                                                          *)
(*************************************************************************)
C8_HumidityBoundsInclusive ==
    Ended /\ Complete /\ SentFrame[5] = ByteSum(SentFrame) =>
        LET raw == IF variant = "Dht11" THEN SentFrame[1]
                   ELSE 256 * SentFrame[1] + SentFrame[2]
            top == IF variant = "Dht11" THEN 100 ELSE 1000
        IN  /\ raw <= top => res.tag = "Ok"
            /\ raw >= top + 1 => res = [tag |-> "InvalidData"]

C8_Witness ==
    /\ Returned /\ Complete /\ variant = "Dht22"
    /\ SentFrame = <<3, 232, 128, 0, 107>>
    /\ res.tag = "Ok" /\ res.humidity = 1000

(*************************************************************************)
(* C9.  When a pin operation fails with hardware error e the read ends   *)
(* with PinError(e), and no pin write, poll or delay follows the failed  *)
(* operation.                                                            *)
(*************************************************************************)
C9_PinErrorPropagates ==
    fault # NoFault =>
        /\ Ended
        /\ res = [tag |-> "PinError", error |-> fault]
        /\ opsAfterFault = 0
        /\ timedOut = "none"

C9_Witness ==
    /\ Returned /\ fault = "HwFaultB" /\ res.tag = "PinError"
    /\ bit = NUM_BITS - 1 /\ elapsed = BIT_LOW_TIMEOUT_US /\ Len(sent) = bit

(*************************************************************************)
(* C10.  Nothing is carried from one read to the next: a read starts at  *)
(* the wake pulse with an all-zero buf, buf holds the bits the pin       *)
(* delivered in this read and no others, and the result is a function    *)
(* of what the pin did in this read.                                     *)
(*************************************************************************)
OutcomeOfThisRead ==
    IF fault # NoFault THEN [tag |-> "PinError", error |-> fault]
    ELSE IF timedOut \in {"ack_high", "ack_low"} THEN [tag |-> "NotPresent"]
    ELSE IF timedOut \in {"bit_high", "bit_low"} THEN [tag |-> "Timeout"]
    ELSE IF SentFrame[5] # ByteSum(SentFrame)
         THEN [tag |-> "ChecksumMismatch",
               expected |-> SentFrame[5],
               calculated |-> ByteSum(SentFrame)]
    ELSE IF HumidityOf(variant, SentFrame) \notin 0..1000
         THEN [tag |-> "InvalidData"]
    ELSE [tag |-> "Ok",
          humidity |-> HumidityOf(variant, SentFrame),
          temperature |-> TemperatureOf(variant, SentFrame)]

C10_NoStateAcrossReads ==
    /\ pc = "set_low" => buf = <<0, 0, 0, 0, 0>> /\ writes = <<>>
    /\ pc # "bit_low_ret" => buf = SentFrame
    /\ Ended => res = OutcomeOfThisRead

C10_Witness ==
    /\ Returned /\ reads = 2 /\ prevAborted
    /\ res.tag = "Ok" /\ SentFrame = <<0, 0, 0, 0, 0>>

(*************************************************************************)
(* C11.  Every read that is called returns, whatever the pin does, and   *)
(* it returns one of Ok, NotPresent, Timeout, ChecksumMismatch,          *)
(* InvalidData and PinError: no read polls for ever.                     *)
(*************************************************************************)
Outcomes ==
    {"Ok", "NotPresent", "Timeout", "ChecksumMismatch", "InvalidData", "PinError"}

C11_ReadTerminates == (pc # "idle") ~> (pc = "idle" /\ res.tag \in Outcomes)

C11_Witness ==
    /\ Returned /\ reads = MaxReads /\ res.tag = "Timeout"
    /\ timedOut = "bit_high" /\ bit = NUM_BITS - 1

(*************************************************************************)
(* C12.  Dht22::parse_data makes of every frame the humidity             *)
(* byte0 * 256 + byte1 tenths and the temperature                        *)
(* (byte2 AND 0x7F) * 256 + byte3 tenths, negated exactly when bit 7 of  *)
(* byte2 is set (sign and magnitude); 02 58 01 0A gives 600 and 266,     *)
(* and 81 0A as temperature bytes gives -266.                            *)
(*************************************************************************)
C12_Dht22Decoding ==
    pc = "parsed" /\ variant = "Dht22" =>
        /\ res.humidity = buf[1] * 256 + buf[2]
        /\ res.temperature =
             IF buf[3] >= 128 THEN -((buf[3] - 128) * 256 + buf[4])
             ELSE buf[3] * 256 + buf[4]
        /\ <<buf[1], buf[2], buf[3], buf[4]>> = <<2, 88, 1, 10>> =>
             res.humidity = 600 /\ res.temperature = 266
        /\ <<buf[3], buf[4]>> = <<129, 10>> => res.temperature = -266

C12_Witness ==
    /\ pc = "parsed" /\ variant = "Dht22"
    /\ buf = <<2, 88, 129, 10, 101>>
    /\ res.humidity = 600 /\ res.temperature = -266

(*************************************************************************)
(* C13.  Dht11::parse_data makes of every frame the humidity byte0 and   *)
(* the temperature byte2, whole and unsigned: bytes 1, 3 and 4 have no   *)
(* part in the values; 45 0 26 0 71 gives 45 and 26.                     *)
(*************************************************************************)
C13_Dht11Decoding ==
    pc = "parsed" /\ variant = "Dht11" =>
        /\ res.humidity = 10 * buf[1]
        /\ res.temperature = 10 * buf[3]
        /\ res.temperature >= 0
        /\ buf = <<45, 0, 26, 0, 71>> =>
             res.humidity = 450 /\ res.temperature = 260

C13_Witness ==
    /\ pc = "parsed" /\ variant = "Dht11"
    /\ buf = <<45, 127, 26, 255, 101>>
    /\ res.humidity = 450 /\ res.temperature = 260

(*************************************************************************)
(* C14.  wait_for_level delays one microsecond after every poll that     *)
(* does not match; when poll k (counted from 0) is the first to match    *)
(* it returns Ok(k), k <= T, after k delays; it returns the caller's     *)
(* error only after T + 1 polls have not matched.                        *)
(*************************************************************************)
C14_WaitForLevelCounts ==
    /\ pc \in WaitPcs =>
         /\ waitPolls = elapsed
         /\ waitDelays = elapsed
         /\ elapsed <= TimeoutOf(pc)
    /\ pc \in RetPcs =>
         /\ waitPolls = ret + 1
         /\ waitDelays = ret
         /\ ret \in 0..TimeoutOf(pc)
    /\ timedOut # "none" =>
         /\ waitPolls = TimeoutOf(timedOut) + 1
         /\ waitDelays = TimeoutOf(timedOut) + 1
         /\ res = IF timedOut \in {"ack_high", "ack_low"}
                  THEN [tag |-> "NotPresent"] ELSE [tag |-> "Timeout"]

C14_Witness ==
    pc = "bit_low_ret" /\ ret = BIT_LOW_TIMEOUT_US /\ waitDelays = BIT_LOW_TIMEOUT_US

(*************************************************************************)
(* C15.  The bit stored for a pulse is 1 exactly when the count its      *)
(* wait for low returned is greater than 30: 0..30 store 0, 31..70       *)
(* store 1; a line still high after the 70-tick bound ends the read      *)
(* with Timeout and stores nothing.                                      *)
(*************************************************************************)
\* Bit i (0..39) of the frame b, most significant bit of byte 0 first.
FrameBit(b, i) == (b[(i \div 8) + 1] \div Pow2(7 - (i % 8))) % 2

C16_MsbFirstAssembly ==
    /\ \A i \in 0..(NUM_BITS - 1) :
         FrameBit(buf, i) = IF i < bit THEN sent[i + 1] ELSE 0
    /\ \A k \in 1..5 : buf[k] \in 0..255
    /\ bit <= Len(sent) /\ Len(sent) <= bit + 1

C16_Witness == pc = "validate" /\ buf = <<2, 88, 129, 10, 229>>

(*************************************************************************)
(* C17.  A read drives the line low, delays 3000 microseconds, drives    *)
(* it high, delays 25 microseconds and then polls for high; these are    *)
(* its only writes, and from the first poll on it only polls and delays  *)
(* one microsecond and never returns to an earlier step.                 *)
(*************************************************************************)
LineDriving ==
    << [op |-> "set_low", us |-> 0],
       [op |-> "delay_us", us |-> 3000],
       [op |-> "set_high", us |-> 0],
       [op |-> "delay_us", us |-> 25],
       [op |-> "is_high", us |-> 0] >>

\* How far a read has come.
Stage ==
    CASE pc = "idle" -> 0
      [] pc = "set_low" -> 1
      [] pc = "delay_wake" -> 2
      [] pc = "set_high" -> 3
      [] pc = "delay_request" -> 4
      [] pc = "ack_high" -> 5
      [] pc = "ack_high_ret" -> 6
      [] pc = "ack_low" -> 7
      [] pc = "ack_low_ret" -> 8
      [] pc = "bit_high" -> 10 + 4 * bit
      [] pc = "bit_high_ret" -> 11 + 4 * bit
      [] pc = "bit_low" -> 12 + 4 * bit
      [] pc = "bit_low_ret" -> 13 + 4 * bit
      [] pc = "validate" -> 1000
      [] pc = "enable" -> 2000

C17_FixedOrder ==
    /\ [](/\ preamble = SubSeq(LineDriving, 1, Len(preamble))
          /\ polled => preamble = LineDriving /\ writes = <<"low", "high">>
          /\ writes = SubSeq(<<"low", "high">>, 1, Len(writes))
          /\ lateOps = 0
          /\ pc \in {"ack_high", "ack_high_ret", "bit_high", "bit_high_ret"}
               => level = "High"
          /\ pc \in {"ack_low", "ack_low_ret", "bit_low", "bit_low_ret"}
               => level = "Low")
    /\ [][pc # "idle" /\ pc' # "idle" => Stage' >= Stage]_vars

C17_Witness ==
    /\ Returned /\ Complete /\ fault = NoFault
    /\ preamble = LineDriving /\ writes = <<"low", "high">> /\ lateOps = 0

(*************************************************************************)
(* C18.  The microseconds of delay a read asks for.  As claimed: at      *)
(* most 3000 + 25 + 85 + 85 + 40 * (55 + 70) = 8195.                     *)
(*************************************************************************)
SumOfTimeouts ==
    WAKE_DELAY_US + REQUEST_DELAY_US + 2 * ACK_TIMEOUT_US
    + NUM_BITS * (BIT_HIGH_TIMEOUT_US + BIT_LOW_TIMEOUT_US)

C18_Original == delayed <= 8195

\* As amended: at most 8196, and at most 8195 in a read in which no wait
\* runs out (a wait that runs out has made timeout_us + 1 delays).
C18_DelayBound ==
    /\ SumOfTimeouts = 8195
    /\ delayed <= SumOfTimeouts + 1
    /\ timedOut = "none" => delayed <= SumOfTimeouts

C18_Witness ==
    /\ Returned /\ delayed = 8196 /\ res.tag = "Timeout"
    /\ timedOut = "bit_low" /\ bit = NUM_BITS - 1

(*************************************************************************)
(* C19.  The error tells the phase that failed: NotPresent only when no  *)
(* bit was sampled and an acknowledgment wait ran out, Timeout only      *)
(* after both acknowledgment waits returned and before the 40th bit was  *)
(* stored, ChecksumMismatch and InvalidData only after all 40 bits, and  *)
(* InvalidData only with a matching checksum.                            *)
(*************************************************************************)
C19_ErrorTellsPhase ==
    /\ res.tag = "NotPresent" =>
         /\ waitsDone < 2 /\ bit = 0 /\ sent = <<>>
         /\ timedOut \in {"ack_high", "ack_low"}
    /\ res.tag = "Timeout" =>
         /\ waitsDone >= 2 /\ bit < NUM_BITS /\ Len(sent) < NUM_BITS
         /\ timedOut \in {"bit_high", "bit_low"}
    /\ res.tag \in {"ChecksumMismatch", "InvalidData"} =>
         /\ bit = NUM_BITS /\ Complete
         /\ waitsDone = 2 + 2 * NUM_BITS
         /\ timedOut = "none" /\ fault = NoFault
    /\ res.tag = "InvalidData" => SentFrame[5] = ByteSum(SentFrame)
    /\ res.tag = "ChecksumMismatch" => SentFrame[5] # ByteSum(SentFrame)

C19_Witness ==
    /\ Returned /\ res.tag = "InvalidData" /\ variant = "Dht22"
    /\ SentFrame = <<3, 233, 0, 0, 236>>

=============================================================================
